---- MODULE Spec2Model ----
(***************************************************************************)
(* Model of the auth-sdk token validator (packages/auth-sdk), of its JWKS  *)
(* key cache, and of the html2pdf auth middleware that consumes it.        *)
(*                                                                         *)
(* Strings the code inspects by content (issuer names) are sequences of    *)
(* one-character strings, so that `contains` is a real substring test.     *)
(* Option<T> is <<>> (None) or <<v>> (Some(v)).                            *)
(***************************************************************************)
EXTENDS Integers, Sequences, FiniteSets, TLC

VARIABLES
    config,     \* TokenValidator.config, immutable after construction
    now,        \* the system clock (seconds since the epoch)
    ticks,      \* number of clock advances so far (bounds the model)
    jwks_cache, \* TokenValidator.jwks_cache: LRU list, most recently used first
    lock,       \* holder of the jwks_cache mutex, 0 when free
    tasks,      \* one record per request / call in flight
    seen,       \* number of distinct endpoints resolve calls have named so far
    extras,     \* number of off-nominal events so far (bounds SpecCache)
    recent,     \* history: endpoints in the order of their last cache hit or insertion, latest first
    last,       \* history: the resolve call that returned last, if it ran alone
    user,       \* a get_user_from_token call: its token and what it returned
    browser_pool, \* the BrowserPool: page_pool, semaphore, max_pool_size, browser
    calls       \* one record per print_to_pdf call

vars == <<config, now, ticks, jwks_cache, lock, tasks, seen, extras, recent, last, user,
          browser_pool, calls>>

-----------------------------------------------------------------------------
(* Bounds of the model *)

MaxTicks == 1
MaxExtras == 1
\* Largest max_concurrent_tabs a BrowserPool is built with.
MaxTabs == 2
\* Number of print_to_pdf calls.
NCalls == 3

(* Program constants *)

Capacity == 10
Leeway == 60

-----------------------------------------------------------------------------
(* Option and string helpers *)

None == <<>>
Some(v) == <<v>>
IsSome(o) == o # <<>>
Unwrap(o) == o[1]

contains(s, sub) ==
    \E i \in 0..(Len(s) - Len(sub)) : SubSeq(s, i + 1, i + Len(sub)) = sub

\* Issuer strings used by the configurations and the tokens.
KC == <<"k", "c">>
KCR == <<"k", "c", "/", "r">>
A0 == <<"a", "0">>
TEST == <<"t", "e", "s", "t">>
KCTEST == <<"k", "c", "-", "t", "e", "s", "t">>
ZZ == <<"z", "z">>

T0 == 1000

-----------------------------------------------------------------------------
(* Configuration: config.rs *)

ConfigDefault ==
    [jwks_issuers |-> <<>>, ship_symmetric_key |-> None, allow_test_tokens |-> FALSE]

\* HashMap::insert on the issuer map. The sequence order stands for the
\* map's (unspecified but fixed) iteration order.
add_jwks_issuer(c, issuer, jwks_url) ==
    LET m == c.jwks_issuers
        at == {i \in 1..Len(m) : m[i][1] = issuer}
    IN  [c EXCEPT !.jwks_issuers =
            IF at = {} THEN Append(m, <<issuer, jwks_url>>)
            ELSE [i \in 1..Len(m) |-> IF i \in at THEN <<issuer, jwks_url>> ELSE m[i]]]

with_ship_key(c, key) == [c EXCEPT !.ship_symmetric_key = Some(key)]

allow_test_tokens(c) == [c EXCEPT !.allow_test_tokens = TRUE]

\* main.rs builds the validator's configuration from the issuers of cnfg.rs.
BaseConfig == add_jwks_issuer(add_jwks_issuer(ConfigDefault, KC, 1), A0, 2)

Configs ==
    { BaseConfig, with_ship_key(BaseConfig, 1),
      allow_test_tokens(BaseConfig), allow_test_tokens(with_ship_key(BaseConfig, 1)) }

-----------------------------------------------------------------------------
(* Keys, signatures and tokens *)

AlgFamily(alg) == IF alg \in {"HS256", "HS384"} THEN "hmac" ELSE "rsa"

\* Faulty variant: the secret is taken as base64 text and decoded first.
from_secret_base64(s) == [fam |-> "hmac", n |-> s + 1000]

\* DecodingKey::from_secret / DecodingKey::from_rsa_components
from_secret(s) == [fam |-> "hmac", n |-> s]
from_rsa_components(n) == [fam |-> "rsa", n |-> n]

\* The key material an endpoint publishes for a key id in generation gen.
Material(url, kid, gen) == url * 100 + kid * 10 + gen

NoClaims ==
    [iss |-> None, exp |-> None, token_requested_from |-> None,
     user_id |-> None, customer_id |-> None]

Exps == {None, Some(T0), Some(T0 + 1), Some(T0 + 500)}

MarkerSets ==
    { [NoClaims EXCEPT !.token_requested_from = Some(7)],
      [NoClaims EXCEPT !.user_id = Some(7)],
      [NoClaims EXCEPT !.customer_id = Some(7)],
      [NoClaims EXCEPT !.token_requested_from = Some(7), !.user_id = Some(7),
                       !.customer_id = Some(7)] }

Tok(alg, kid, claims, sig) ==
    [parts |-> 3, header_ok |-> TRUE, payload |-> "ok",
     alg |-> alg, kid |-> kid, claims |-> claims, sig |-> sig]

\* Tokens of the internal scheme: signed (or forged) with a shared secret.
ShipTokens ==
    { Tok(as[1], None, [m EXCEPT !.iss = i, !.exp = e], [alg |-> as[1], n |-> as[2]]) :
        as \in {<<"HS256", 1>>, <<"HS256", 2>>, <<"HS384", 1>>},
        m \in MarkerSets, i \in {None, Some(KC)}, e \in Exps }

\* Marker-free tokens whose issuer is, or contains, a configured issuer name:
\* signed with a key endpoint 1 publishes (current or rotated), with an
\* unpublished key, or with the shared secret.
JwksTokens ==
    { Tok(as[1], k, [NoClaims EXCEPT !.iss = Some(i), !.exp = e],
          [alg |-> as[1], n |-> as[2]]) :
        as \in {<<"RS256", Material(1, 1, 0)>>, <<"RS256", Material(1, 1, 1)>>,
                <<"RS256", 999>>, <<"HS256", 1>>},
        k \in {None, Some(1), Some(2)},
        i \in {KC, KCR}, e \in Exps }
    \cup
    { Tok("RS256", k, [NoClaims EXCEPT !.iss = Some(KCTEST), !.exp = e],
          [alg |-> "RS256", n |-> n]) :
        n \in {Material(1, 1, 0), 999}, k \in {None, Some(1)}, e \in Exps }
    \cup
    { Tok("RS256", Some(1), [NoClaims EXCEPT !.iss = Some(A0), !.exp = e],
          [alg |-> "RS256", n |-> n]) :
        n \in {Material(2, 1, 0), 999}, e \in {Some(T0 + 1), Some(T0 + 500)} }

\* Marker-free tokens of an unconfigured issuer, or without issuer.
OtherTokens ==
    { Tok("RS256", k, [NoClaims EXCEPT !.iss = Some(i), !.exp = e],
          [alg |-> "RS256", n |-> Material(1, 1, 0)]) :
        k \in {None, Some(1)}, i \in {ZZ, TEST}, e \in Exps }
    \cup
    { Tok(as[1], None, [NoClaims EXCEPT !.exp = e], [alg |-> as[1], n |-> as[2]]) :
        as \in {<<"HS256", 1>>, <<"RS256", 999>>}, e \in Exps }

BaseTok ==
    Tok("HS256", None, [NoClaims EXCEPT !.user_id = Some(7), !.exp = Some(T0)],
        [alg |-> "HS256", n |-> 1])

\* Tokens that do not decode: wrong segment count, bad header, bad payload.
MalformedTokens ==
    { [BaseTok EXCEPT !.parts = 2], [BaseTok EXCEPT !.parts = 4],
      [BaseTok EXCEPT !.header_ok = FALSE],
      [BaseTok EXCEPT !.payload = "b64"], [BaseTok EXCEPT !.payload = "json"] }

Tokens == ShipTokens \cup JwksTokens \cup OtherTokens \cup MalformedTokens

\* Authorization headers: missing, another scheme, "Bearer " with nothing
\* after it, or "Bearer <token>".
Headers ==
    {None, Some([scheme |-> "Basic", tok |-> None]), Some([scheme |-> "Bearer", tok |-> None])}
    \cup { Some([scheme |-> "Bearer", tok |-> Some(k)]) : k \in Tokens }

-----------------------------------------------------------------------------
(* Results: models.rs TokenValidationResult, error.rs AuthError *)

Res(kind, tag, claims, issuer, reason) ==
    [kind |-> kind, tag |-> tag, claims |-> claims, issuer |-> issuer, reason |-> reason]

NoOut == Res("none", "none", None, None, "")
Valid(claims) == Res("Ok", "Valid", Some(claims), None, "")
Invalid(reason) == Res("Ok", "Invalid", None, None, reason)
Expired == Res("Ok", "Expired", None, None, "")
UnknownIssuer(issuer) == Res("Ok", "UnknownIssuer", None, Some(issuer), "")
Err(tag) == Res("Err", tag, None, None, "")
InvalidIssuer(issuer) == Res("Err", "InvalidIssuer", None, Some(issuer), "")

-----------------------------------------------------------------------------
(* Task state *)

\* No get_user_from_token call has been made.
NoUser == [pc |-> "none", tok |-> None, out |-> None]

\* What a call has done so far: looked its issuer up, checked the test bypass,
\* looked into the cache (cache), found the endpoint there (had) and the key
\* id with it (hit), fetched (fetch, the number of GETs) and failed to
\* (failed), verified a signature.
NoDid ==
    [lookup |-> FALSE, bypass |-> FALSE, cache |-> FALSE, fetch |-> 0,
     verify |-> FALSE, hit |-> FALSE, had |-> FALSE, failed |-> FALSE]

\* History fields of a resolve call: old is the mapping the look-up saw,
\* lone says that no other call was in flight with it, after is the call
\* before it when this one repeats it in sequence.
IdleTask ==
    [pc |-> "idle", caller |-> "none", hdr |-> None, tok |-> None,
     out |-> NoOut, fwd |-> "none", path |-> "none",
     matched |-> None, url |-> 0, kid |-> 0, key |-> None, rres |-> "none",
     built |-> <<>>, cnow |-> 0, vnow |-> 0, extra |-> FALSE, lone |-> TRUE,
     after |-> None, old |-> <<>>, did |-> NoDid]

Done(st, r, fwd) == [st EXCEPT !.pc = "done", !.out = r, !.fwd = fwd]

-----------------------------------------------------------------------------
(* The browser pool and the print_to_pdf calls *)

\* BrowserPool::new_with_pool_size, once the browser is launched: an empty
\* page pool, max_concurrent_tabs permits, and max_pool_size of the same
\* value.  browser counts the pages the browser has opened; a page is
\* known by its number.
new_with_pool_size(max_concurrent_tabs) ==
    [page_pool |-> <<>>,
     semaphore |-> max_concurrent_tabs,
     max_pool_size |-> max_concurrent_tabs,
     browser |-> 0]

Callers == 1..NCalls

\* A print_to_pdf call: where it is, the page it holds, whether it holds a
\* permit, its result, and what became of its page.
IdleCall == [pc |-> "idle", page |-> None, permit |-> FALSE, result |-> "", page_end |-> ""]

-----------------------------------------------------------------------------
(* jsonwebtoken, as the validator uses it *)

\* Faulty variant: the header is decoded whatever the number of segments.
decode_header_any_segments(tok) ==
    IF ~tok.header_ok THEN "JwtError" ELSE "Ok"

\* decode_header: the token must have three segments and a decodable header.
decode_header(tok) ==
    IF tok.parts # 3 \/ ~tok.header_ok THEN "JwtError" ELSE "Ok"

\* Faulty variant: the signature is not compared.
verify_unchecked(tok, key) == AlgFamily(tok.alg) = key.fam

\* Signature check of the library: the header's algorithm is the one the
\* signature was made with, and the key is the signing key.
verify(tok, key) ==
    /\ tok.sig.alg = tok.alg
    /\ AlgFamily(tok.alg) = key.fam
    /\ tok.sig.n = key.n

\* decode::<Claims>(token, key, validation): signature first, then the
\* claims; issuers is validation.iss (<<>> when unset). A key of another
\* family than the algorithm never verifies. Tokens of the model carry an
\* integer exp or none, so the library and Claims read the same exp.
LibDecode(tok, key, algorithms, required_exp, issuers, t_now) ==
    IF \E a \in algorithms : AlgFamily(a) # key.fam THEN "InvalidAlgorithm"
    ELSE IF tok.alg \notin algorithms THEN "InvalidAlgorithm"
    ELSE IF ~verify(tok, key) THEN "InvalidSignature"
    ELSE IF required_exp /\ tok.claims.exp = None THEN "MissingRequiredClaim"
    ELSE IF IsSome(tok.claims.exp) /\ Unwrap(tok.claims.exp) < t_now - Leeway
        THEN "ExpiredSignature"
    ELSE IF IsSome(issuers) /\ (tok.claims.iss = None \/ Unwrap(tok.claims.iss) \notin Unwrap(issuers))
        THEN "InvalidIssuer"
    ELSE "Ok"

-----------------------------------------------------------------------------
(* validator.rs *)

\* extract_token_from_header: "Bearer " prefix, trimmed, not empty.
extract_token_from_header(h) ==
    IF h.scheme # "Bearer" THEN Err("InvalidTokenFormat")
    ELSE IF h.tok = None THEN Err("InvalidTokenFormat")
    ELSE Res("Ok", "Token", None, None, "")

\* decode_token_unsafe: three segments, base64url payload, JSON claims.
decode_token_unsafe(tok) ==
    IF tok.parts # 3 THEN Err("InvalidTokenFormat")
    ELSE IF tok.payload = "b64" THEN Err("InvalidTokenFormat")
    ELSE IF tok.payload = "json" THEN Err("JsonError")
    ELSE Res("Ok", "Claims", Some(tok.claims), None, "")

\* Faulty variant: a token is expired only strictly after its exp.
IsExpired_strict(exp, t_now) == IsSome(exp) /\ t_now > Unwrap(exp)

\* validate_token, "Check expiration first"
IsExpired(exp, t_now) == IsSome(exp) /\ t_now >= Unwrap(exp)

\* Faulty variant: a token without issuer is taken for a SHIP token.
IsShipToken_no_issuer(claims) ==
    \/ IsSome(claims.token_requested_from)
    \/ IsSome(claims.user_id)
    \/ IsSome(claims.customer_id)
    \/ claims.iss = None

\* Faulty variant: only tokenRequestedFrom marks a SHIP token.
IsShipToken_one_marker(claims) == IsSome(claims.token_requested_from)

\* validate_token, "Check for SHIP tokens first"
IsShipToken(claims) ==
    \/ IsSome(claims.token_requested_from)
    \/ IsSome(claims.user_id)
    \/ IsSome(claims.customer_id)

\* Faulty variant: the configuration's flag is not consulted.
IsTestToken_unguarded(cfg, issuer) == contains(issuer, TEST)

\* validate_token, "Check for test tokens"
IsTestToken(cfg, issuer) == cfg.allow_test_tokens /\ contains(issuer, TEST)

\* validate_jwks_token: jwks_issuers.iter().find(|(iss, _)| issuer.contains(iss))
FindJwks(cfg, issuer) ==
    LET m == cfg.jwks_issuers
        hits == {i \in 1..Len(m) : contains(issuer, m[i][1])}
    IN  IF hits = {} THEN None
        ELSE Some(m[CHOOSE i \in hits : \A j \in hits : i <= j])

\* Faulty variant: the validation requires the configured issuer name.
ValidationIssuers_matched(issuer, matched) == Some({matched})

\* validate_jwks_token: validation.set_issuer(&[issuer]), where issuer is the
\* token's own issuer claim (matched is the configured name that was found).
ValidationIssuers(issuer, matched) == Some({issuer})

\* auth_middleware: match validate_token(..) { Ok(_) => next.run, Err(_) => 401 }
MiddlewareVerdict(r) == IF r.kind = "Ok" THEN "forwarded" ELSE "rejected"

Finished(st, r) == Done(st, r, IF st.caller = "middleware" THEN MiddlewareVerdict(r) ELSE "none")

\* Faulty variant: without a shared secret the token is reported Invalid.
validate_ship_token_invalid(st, cfg) ==
    IF cfg.ship_symmetric_key = None
    THEN Finished([st EXCEPT !.path = "ship"], Invalid("SHIP symmetric key not configured"))
    ELSE [st EXCEPT !.path = "ship", !.pc = "ship_verify",
                    !.key = Some(from_secret(Unwrap(cfg.ship_symmetric_key)))]

\* validate_ship_token up to the library call.
validate_ship_token(st, cfg) ==
    IF cfg.ship_symmetric_key = None THEN Finished([st EXCEPT !.path = "ship"], Err("MissingConfig"))
    ELSE [st EXCEPT !.path = "ship", !.pc = "ship_verify",
                    !.key = Some(from_secret(Unwrap(cfg.ship_symmetric_key)))]

\* validate_jwks_token up to the call of get_decoding_key_from_jwks.
validate_jwks_token(st, cfg, issuer, tok) ==
    LET found == FindJwks(cfg, issuer)
        s1 == [st EXCEPT !.path = "jwks", !.did.lookup = TRUE]
    IN  IF found = None THEN Finished(s1, InvalidIssuer(issuer))
        ELSE IF tok.kid = None
            THEN Finished([s1 EXCEPT !.matched = Some(Unwrap(found)[1])], Err("InvalidTokenFormat"))
        ELSE [s1 EXCEPT !.matched = Some(Unwrap(found)[1]), !.url = Unwrap(found)[2],
                        !.kid = Unwrap(tok.kid), !.pc = "r_lock"]

\* Faulty variant: no expiration check before the paths.
validate_token_no_expiry(s0, cfg, t_now) ==
    LET st == [s0 EXCEPT !.cnow = t_now]
        tok == Unwrap(st.tok)
        c == decode_token_unsafe(tok)
    IN  IF decode_header(tok) # "Ok" THEN Finished(st, Err(decode_header(tok)))
        ELSE IF c.kind # "Ok" THEN Finished(st, c)
        ELSE LET claims == Unwrap(c.claims) IN
            IF IsShipToken(claims) THEN validate_ship_token(st, cfg)
            ELSE IF claims.iss = None THEN Finished(st, Err("InvalidTokenFormat"))
            ELSE IF IsTestToken(cfg, Unwrap(claims.iss))
                THEN Finished([st EXCEPT !.path = "bypass", !.did.bypass = TRUE], Valid(claims))
            ELSE validate_jwks_token([st EXCEPT !.did.bypass = TRUE], cfg, Unwrap(claims.iss), tok)

\* validate_token up to its first suspension point.
validate_token(s0, cfg, t_now) ==
    LET st == [s0 EXCEPT !.cnow = t_now]
        tok == Unwrap(st.tok)
        c == decode_token_unsafe(tok)
    IN  IF decode_header(tok) # "Ok" THEN Finished(st, Err(decode_header(tok)))
        ELSE IF c.kind # "Ok" THEN Finished(st, c)
        ELSE LET claims == Unwrap(c.claims) IN
            IF IsExpired(claims.exp, t_now) THEN Finished([st EXCEPT !.path = "expired"], Expired)
            ELSE IF IsShipToken(claims) THEN validate_ship_token(st, cfg)
            ELSE IF claims.iss = None THEN Finished(st, Err("InvalidTokenFormat"))
            ELSE IF IsTestToken(cfg, Unwrap(claims.iss))
                THEN Finished([st EXCEPT !.path = "bypass", !.did.bypass = TRUE], Valid(claims))
            ELSE validate_jwks_token([st EXCEPT !.did.bypass = TRUE], cfg, Unwrap(claims.iss), tok)

-----------------------------------------------------------------------------
(* The key cache: lru::LruCache<String, HashMap<String, DecodingKey>> *)

Entry(url, keys) == [url |-> url, keys |-> keys]

Cached(cache, url) == \E i \in 1..Len(cache) : cache[i].url = url

KeysOf(cache, url) == (CHOOSE i \in 1..Len(cache) : cache[i].url = url)

Without(cache, url) == SelectSeq(cache, LAMBDA e : e.url # url)

\* Faulty variant: a hit leaves the order of the entries alone.
lru_get_no_promote(cache, url) == cache

\* LruCache::get: a hit makes the entry the most recently used.
lru_get(cache, url) ==
    IF Cached(cache, url) THEN <<cache[KeysOf(cache, url)]>> \o Without(cache, url)
    ELSE cache

\* Faulty variant: an insertion never drops an entry.
lru_put_unbounded(cache, url, keys) ==
    IF Cached(cache, url) THEN <<Entry(url, keys)>> \o Without(cache, url)
    ELSE <<Entry(url, keys)>> \o cache

\* Faulty variant: an insertion stores nothing.
lru_put_discard(cache, url, keys) == cache

\* Faulty variant: a full cache drops its most recently used entry.
lru_put_drop_newest(cache, url, keys) ==
    IF Cached(cache, url) THEN <<Entry(url, keys)>> \o Without(cache, url)
    ELSE IF Len(cache) >= Capacity THEN <<Entry(url, keys)>> \o SubSeq(cache, 2, Capacity)
    ELSE <<Entry(url, keys)>> \o cache

\* Faulty variant: the keys of a present entry are merged with the new ones.
lru_put_merge(cache, url, keys) ==
    LET old == IF Cached(cache, url) THEN cache[KeysOf(cache, url)].keys ELSE <<>>
        merged == [k \in DOMAIN old \cup DOMAIN keys |->
                       IF k \in DOMAIN keys THEN keys[k] ELSE old[k]]
    IN  IF Cached(cache, url) THEN <<Entry(url, merged)>> \o Without(cache, url)
        ELSE IF Len(cache) >= Capacity THEN <<Entry(url, keys)>> \o SubSeq(cache, 1, Capacity - 1)
        ELSE <<Entry(url, keys)>> \o cache

\* Faulty variant: a present entry keeps its keys and gains the new key ids.
lru_put_extend(cache, url, keys) ==
    LET old == IF Cached(cache, url) THEN cache[KeysOf(cache, url)].keys ELSE <<>>
        merged == [k \in DOMAIN old \cup DOMAIN keys |->
                       IF k \in DOMAIN old THEN old[k] ELSE keys[k]]
    IN  IF Cached(cache, url) THEN <<Entry(url, merged)>> \o Without(cache, url)
        ELSE IF Len(cache) >= Capacity THEN <<Entry(url, keys)>> \o SubSeq(cache, 1, Capacity - 1)
        ELSE <<Entry(url, keys)>> \o cache

\* LruCache::put: replaces the value of a present key; otherwise inserts,
\* dropping the least recently used entry when the cache is full.
lru_put(cache, url, keys) ==
    IF Cached(cache, url) THEN <<Entry(url, keys)>> \o Without(cache, url)
    ELSE IF Len(cache) >= Capacity THEN <<Entry(url, keys)>> \o SubSeq(cache, 1, Capacity - 1)
    ELSE <<Entry(url, keys)>> \o cache

-----------------------------------------------------------------------------
(* The JWKS documents an endpoint may answer with *)

Jwk(kid, kty, n, e, good) == [kid |-> kid, kty |-> kty, n |-> n, e |-> e, good |-> good]

Rsa(url, kid, gen) == Jwk(Some(kid), "RSA", Some(Material(url, kid, gen)), Some(1), TRUE)

\* The documents an endpoint publishes over time. Endpoint 1 rotates its
\* keys and at times publishes documents the decoder skips or rejects: two
\* keys; after a rotation one key with new material; an EC key and an RSA key
\* whose components do not decode; an RSA key without modulus. Every other
\* endpoint publishes one fixed document.
Docs(url) ==
    IF url = 1
    THEN { <<Rsa(url, 1, 0), Rsa(url, 2, 0)>>,
           <<Rsa(url, 1, 1)>>,
           <<Jwk(Some(2), "EC", None, None, TRUE), Jwk(Some(1), "RSA", Some(5), Some(1), FALSE)>>,
           <<Rsa(url, 2, 0), Jwk(Some(1), "RSA", None, Some(1), TRUE)>> }
    ELSE { <<Rsa(url, 1, 0)>> }

\* What the GET of an endpoint can produce: a transport or body error, a JSON
\* value without a "keys" array, or a document.
Responses(url) ==
    { [kind |-> "neterr", keys |-> <<>>], [kind |-> "nokeys", keys |-> <<>>] }
    \cup { [kind |-> "doc", keys |-> d] : d \in Docs(url) }

\* The document an endpoint publishes when nothing is going on: one RSA key.
Plain(url) == [kind |-> "doc", keys |-> <<Rsa(url, 1, IF url = 1 THEN 1 ELSE 0)>>]

MapPut(m, k, v) == [x \in (DOMAIN m) \cup {k} |-> IF x = k THEN v ELSE m[x]]

\* get_decoding_key_from_jwks, the loop over the "keys" array:
\* <<"Ok", decoded_keys>> or <<"InvalidTokenFormat", _>>.
RECURSIVE build_keys(_, _)
build_keys(keys, acc) ==
    IF keys = <<>> THEN <<"Ok", acc>>
    ELSE LET key == Head(keys)
             key_kid == IF IsSome(key.kid) THEN Unwrap(key.kid) ELSE 0
         IN  IF key.kty # "RSA" THEN build_keys(Tail(keys), acc)
             ELSE IF key.n = None \/ key.e = None THEN <<"InvalidTokenFormat", acc>>
             ELSE IF key.good
                 THEN build_keys(Tail(keys), MapPut(acc, key_kid, from_rsa_components(Unwrap(key.n))))
             ELSE build_keys(Tail(keys), acc)

\* get_decoding_key_from_jwks from the response to the cache update.
parse_jwks(resp) ==
    IF resp.kind = "neterr" THEN <<"RequestError", <<>>>>
    ELSE IF resp.kind = "nokeys" THEN <<"InvalidTokenFormat", <<>>>>
    ELSE build_keys(resp.keys, <<>>)

-----------------------------------------------------------------------------
(* get_decoding_key_from_jwks, step by step *)

Set(t, st) == tasks' = [tasks EXCEPT ![t] = st]

\* History: url has just been hit or inserted.
Touch(r, url) == <<url>> \o SelectSeq(r, LAMBDA u : u # url)

\* "Check cache first": jwks_cache.lock()
LockForCheck(t) ==
    /\ tasks[t].pc = "r_lock"
    /\ lock = 0
    /\ lock' = t
    /\ Set(t, [tasks[t] EXCEPT !.pc = "r_check"])
    /\ UNCHANGED <<config, now, ticks, jwks_cache, seen, extras, recent, last, user, browser_pool, calls>>

\* Faulty variant: a key id missing from a cached entry is reported missing
\* without a fetch.
CheckCache_negative(t) ==
    LET st == tasks[t]
        hit == Cached(jwks_cache, st.url)
        keys == IF hit THEN jwks_cache[KeysOf(jwks_cache, st.url)].keys ELSE <<>>
        s1 == [st EXCEPT !.did.cache = TRUE, !.did.had = hit, !.old = keys]
    IN  /\ st.pc = "r_check"
        /\ lock = t
        /\ jwks_cache' = lru_get(jwks_cache, st.url)
        /\ recent' = IF hit THEN Touch(recent, st.url) ELSE recent
        /\ lock' = 0
        /\ Set(t, IF hit /\ st.kid \in DOMAIN keys
                  THEN [s1 EXCEPT !.pc = "resolved", !.rres = "Ok", !.key = Some(keys[st.kid]),
                                  !.did.hit = TRUE]
                  ELSE IF hit
                  THEN [s1 EXCEPT !.pc = "resolved", !.rres = "InvalidTokenFormat"]
                  ELSE [s1 EXCEPT !.pc = "fetch"])
        /\ UNCHANGED <<config, now, ticks, seen, extras, last, user, browser_pool, calls>>

\* Faulty variant: the guard lives on through the fetch after a miss.
CheckCache_keeps_lock(t) ==
    LET st == tasks[t]
        hit == Cached(jwks_cache, st.url)
        keys == IF hit THEN jwks_cache[KeysOf(jwks_cache, st.url)].keys ELSE <<>>
        s1 == [st EXCEPT !.did.cache = TRUE, !.did.had = hit, !.old = keys]
        found == hit /\ st.kid \in DOMAIN keys
    IN  /\ st.pc = "r_check"
        /\ lock = t
        /\ jwks_cache' = lru_get(jwks_cache, st.url)
        /\ recent' = IF hit THEN Touch(recent, st.url) ELSE recent
        /\ lock' = IF found THEN 0 ELSE t
        /\ Set(t, IF found
                  THEN [s1 EXCEPT !.pc = "resolved", !.rres = "Ok", !.key = Some(keys[st.kid]),
                                  !.did.hit = TRUE]
                  ELSE [s1 EXCEPT !.pc = "fetch"])
        /\ UNCHANGED <<config, now, ticks, seen, extras, last, user, browser_pool, calls>>

\* cache.get(jwks_url), keys.get(kid), and the guard's drop.
CheckCache(t) ==
    LET st == tasks[t]
        hit == Cached(jwks_cache, st.url)
        keys == IF hit THEN jwks_cache[KeysOf(jwks_cache, st.url)].keys ELSE <<>>
        s1 == [st EXCEPT !.did.cache = TRUE, !.did.had = hit, !.old = keys]
    IN  /\ st.pc = "r_check"
        /\ lock = t
        /\ jwks_cache' = lru_get(jwks_cache, st.url)
        /\ recent' = IF hit THEN Touch(recent, st.url) ELSE recent
        /\ lock' = 0
        /\ Set(t, IF hit /\ st.kid \in DOMAIN keys
                  THEN [s1 EXCEPT !.pc = "resolved", !.rres = "Ok", !.key = Some(keys[st.kid]),
                                  !.did.hit = TRUE]
                  ELSE [s1 EXCEPT !.pc = "fetch"])
        /\ UNCHANGED <<config, now, ticks, seen, extras, last, user, browser_pool, calls>>

\* Faulty variant: a failed fetch drops the endpoint's entry.
Fetch_drops_entry(t) ==
    \E resp \in Responses(tasks[t].url) :
        LET st == tasks[t]
            r == parse_jwks(resp)
            s1 == [st EXCEPT !.did.fetch = st.did.fetch + 1, !.did.failed = (r[1] # "Ok")]
            off == st.caller = "direct" /\ ~st.extra /\ resp # Plain(st.url)
        IN  /\ st.pc = "fetch"
            /\ off => extras < MaxExtras
            /\ extras' = IF off THEN extras + 1 ELSE extras
            /\ jwks_cache' = IF r[1] = "Ok" THEN jwks_cache ELSE Without(jwks_cache, st.url)
            /\ Set(t, IF r[1] = "Ok" THEN [s1 EXCEPT !.pc = "w_lock", !.built = r[2]]
                      ELSE [s1 EXCEPT !.pc = "resolved", !.rres = r[1]])
            /\ UNCHANGED <<config, now, ticks, lock, seen, recent, last, user, browser_pool, calls>>

\* "Fetch JWKS": the GET, the body's JSON, and the decoding of the keys.
\* To a nominal direct resolve call, a response other than the endpoint's
\* plain document is an off-nominal event.
Fetch(t) ==
    \E resp \in Responses(tasks[t].url) :
        LET st == tasks[t]
            r == parse_jwks(resp)
            s1 == [st EXCEPT !.did.fetch = st.did.fetch + 1, !.did.failed = (r[1] # "Ok")]
            off == st.caller = "direct" /\ ~st.extra /\ resp # Plain(st.url)
        IN  /\ st.pc = "fetch"
            /\ off => extras < MaxExtras
            /\ extras' = IF off THEN extras + 1 ELSE extras
            /\ Set(t, IF r[1] = "Ok" THEN [s1 EXCEPT !.pc = "w_lock", !.built = r[2]]
                      ELSE [s1 EXCEPT !.pc = "resolved", !.rres = r[1]])
            /\ UNCHANGED <<config, now, ticks, jwks_cache, lock, seen, recent, last, user, browser_pool, calls>>

\* "Update cache": jwks_cache.lock()
LockForUpdate(t) ==
    /\ tasks[t].pc = "w_lock"
    /\ lock = 0
    /\ lock' = t
    /\ Set(t, [tasks[t] EXCEPT !.pc = "w_put"])
    /\ UNCHANGED <<config, now, ticks, jwks_cache, seen, extras, recent, last, user, browser_pool, calls>>

\* Faulty variant: a mapping without the key id is not stored.
UpdateCache_if_found(t) ==
    LET st == tasks[t]
        found == st.kid \in DOMAIN st.built
    IN  /\ st.pc = "w_put"
        /\ lock = t
        /\ jwks_cache' = IF found THEN lru_put(jwks_cache, st.url, st.built) ELSE jwks_cache
        /\ recent' = IF found THEN Touch(recent, st.url) ELSE recent
        /\ lock' = 0
        /\ Set(t, IF found
                  THEN [st EXCEPT !.pc = "resolved", !.rres = "Ok", !.key = Some(st.built[st.kid])]
                  ELSE [st EXCEPT !.pc = "resolved", !.rres = "InvalidTokenFormat"])
        /\ UNCHANGED <<config, now, ticks, seen, extras, last, user, browser_pool, calls>>

\* cache.put(jwks_url, decoded_keys.clone()), the guard's drop, and
\* decoded_keys.get(kid).
UpdateCache(t) ==
    LET st == tasks[t]
    IN  /\ st.pc = "w_put"
        /\ lock = t
        /\ jwks_cache' = lru_put(jwks_cache, st.url, st.built)
        /\ recent' = Touch(recent, st.url)
        /\ lock' = 0
        /\ Set(t, IF st.kid \in DOMAIN st.built
                  THEN [st EXCEPT !.pc = "resolved", !.rres = "Ok", !.key = Some(st.built[st.kid])]
                  ELSE [st EXCEPT !.pc = "resolved", !.rres = "InvalidTokenFormat"])
        /\ UNCHANGED <<config, now, ticks, seen, extras, last, user, browser_pool, calls>>

-----------------------------------------------------------------------------
(* The request: auth_middleware, validate_token and its two paths *)

\* auth_middleware up to the first suspension of validate_token.
auth_middleware(st, h, cfg, t_now) ==
    LET s0 == [st EXCEPT !.caller = "middleware", !.hdr = h]
    IN  IF h = None THEN Done(s0, NoOut, "rejected")
        ELSE IF extract_token_from_header(Unwrap(h)).kind # "Ok" THEN Done(s0, NoOut, "rejected")
        ELSE validate_token([s0 EXCEPT !.tok = Unwrap(h).tok], cfg, t_now)

Request(t) ==
    \E h \in Headers :
        /\ tasks[t].pc = "idle"
        /\ Set(t, auth_middleware(tasks[t], h, config, now))
        /\ UNCHANGED <<config, now, ticks, jwks_cache, lock, seen, extras, recent, last, user, browser_pool, calls>>

\* Faulty variant: a failure other than an expired signature is propagated.
ship_verify_fatal(st, t_now) ==
    LET tok == Unwrap(st.tok)
        r == LibDecode(tok, Unwrap(st.key), {"HS256"}, FALSE, None, t_now)
        s1 == [st EXCEPT !.vnow = t_now, !.did.verify = (r = "Ok")]
    IN  IF r = "Ok" THEN Finished(s1, Valid(tok.claims))
        ELSE IF r = "ExpiredSignature" THEN Finished(s1, Expired)
        ELSE Finished(s1, Err("JwtError"))

\* validate_ship_token: decode::<Claims> with the shared secret.
ship_verify(st, t_now) ==
    LET tok == Unwrap(st.tok)
        r == LibDecode(tok, Unwrap(st.key), {"HS256"}, FALSE, None, t_now)
        s1 == [st EXCEPT !.vnow = t_now, !.did.verify = (r = "Ok")]
    IN  IF r = "Ok" THEN Finished(s1, Valid(tok.claims))
        ELSE IF r = "ExpiredSignature" THEN Finished(s1, Expired)
        ELSE Finished(s1, Invalid("All key formats failed"))

ShipVerify(t) ==
    /\ tasks[t].pc = "ship_verify"
    /\ Set(t, ship_verify(tasks[t], now))
    /\ UNCHANGED <<config, now, ticks, jwks_cache, lock, seen, extras, recent, last, user, browser_pool, calls>>

\* validate_jwks_token after get_decoding_key_from_jwks(..).await?
jwks_verify(st, t_now) ==
    LET tok == Unwrap(st.tok)
        issuer == Unwrap(tok.claims.iss)
        r == LibDecode(tok, Unwrap(st.key), {tok.alg}, TRUE,
                       ValidationIssuers(issuer, Unwrap(st.matched)), t_now)
        s1 == [st EXCEPT !.vnow = t_now, !.did.verify = (r = "Ok")]
    IN  IF st.rres # "Ok" THEN Finished(st, Err(st.rres))
        ELSE IF r = "Ok" THEN Finished(s1, Valid(tok.claims))
        ELSE IF r = "ExpiredSignature" THEN Finished(s1, Expired)
        ELSE Finished(s1, Invalid(r))

JwksVerify(t) ==
    /\ tasks[t].pc = "resolved"
    /\ tasks[t].caller = "middleware"
    /\ Set(t, jwks_verify(tasks[t], now))
    /\ UNCHANGED <<config, now, ticks, jwks_cache, lock, seen, extras, recent, last, user, browser_pool, calls>>

\* The response is sent; the task serves the next request.
Respond(t) ==
    /\ tasks[t].pc = "done"
    /\ Set(t, IdleTask)
    /\ UNCHANGED <<config, now, ticks, jwks_cache, lock, seen, extras, recent, last, user, browser_pool, calls>>

\* The clock advances: by a second, or by more than the library's leeway.
Tick ==
    \E d \in {1, Leeway + 2} :
        /\ ticks < MaxTicks
        /\ now' = now + d
        /\ ticks' = ticks + 1
        /\ UNCHANGED <<config, jwks_cache, lock, tasks, seen, extras, recent, last, user, browser_pool, calls>>

-----------------------------------------------------------------------------
(* The service: one request at a time through the middleware. Validation   *)
(* calls share nothing but the key cache; concurrent callers of the cache  *)
(* are the subject of SpecCache below.                                     *)

Init ==
    /\ config \in Configs
    /\ now = T0
    /\ ticks = 0
    /\ jwks_cache = <<>>
    /\ lock = 0
    /\ tasks = [t \in {1} |-> IdleTask]
    /\ seen = 0
    /\ extras = 0
    /\ recent = <<>>
    /\ last = None
    /\ user = NoUser
    /\ browser_pool = new_with_pool_size(1)
    /\ calls = [c \in Callers |-> IdleCall]

Next ==
    \/ \E t \in DOMAIN tasks : Request(t)
    \/ \E t \in DOMAIN tasks : ShipVerify(t)
    \/ \E t \in DOMAIN tasks : LockForCheck(t)
    \/ \E t \in DOMAIN tasks : CheckCache(t)
    \/ \E t \in DOMAIN tasks : Fetch(t)
    \/ \E t \in DOMAIN tasks : LockForUpdate(t)
    \/ \E t \in DOMAIN tasks : UpdateCache(t)
    \/ \E t \in DOMAIN tasks : JwksVerify(t)
    \/ \E t \in DOMAIN tasks : Respond(t)
    \/ Tick

Spec == Init /\ [][Next]_vars

-----------------------------------------------------------------------------
(* The key cache on its own: concurrent get_decoding_key_from_jwks calls *)

NEndpoints == Capacity + 1

Kids == {1, 2}

Busy(t) == tasks[t].pc # "idle"

\* A call of get_decoding_key_from_jwks(jwks_url, kid). Endpoints are numbered
\* in the order of their first use. A call that names an endpoint already
\* used, or that starts while another call is in flight, is an off-nominal
\* event. Tasks are interchangeable: a call is started by the first idle one.
\* History: the call remembers the call before it when that one ran alone, for
\* the same endpoint and key id, and nothing is in flight now.
ResolveCall(t) ==
    \E url \in 1..NEndpoints, kid \in Kids :
        LET alone == \A u \in DOMAIN tasks : ~Busy(u)
            nominal == url = seen + 1 /\ alone
            repeats == alone /\ last # None /\ last[1].url = url /\ last[1].kid = kid
            call == [IdleTask EXCEPT !.caller = "direct", !.url = url, !.kid = kid,
                                     !.extra = ~nominal, !.pc = "r_lock", !.lone = alone,
                                     !.after = IF repeats THEN last ELSE None]
        IN  /\ tasks[t].pc = "idle"
            /\ \A u \in DOMAIN tasks : u < t => Busy(u)
            /\ url <= seen + 1
            /\ nominal \/ extras < MaxExtras
            /\ seen' = IF url > seen THEN url ELSE seen
            /\ extras' = IF nominal THEN extras ELSE extras + 1
            /\ tasks' = [u \in DOMAIN tasks |->
                            IF u = t THEN call
                            ELSE IF Busy(u) THEN [tasks[u] EXCEPT !.lone = FALSE, !.after = None]
                            ELSE tasks[u]]
            /\ last' = None
            /\ UNCHANGED <<config, now, ticks, jwks_cache, lock, recent, user, browser_pool, calls>>

\* The call returns its key or its error to the caller. History keeps the
\* call if no other call was in flight while it ran.
ResolveReturn(t) ==
    /\ tasks[t].pc = "resolved"
    /\ tasks[t].caller = "direct"
    /\ Set(t, IdleTask)
    /\ last' = IF tasks[t].lone
               THEN Some([url |-> tasks[t].url, kid |-> tasks[t].kid,
                          rres |-> tasks[t].rres, key |-> tasks[t].key])
               ELSE None
    /\ UNCHANGED <<config, now, ticks, jwks_cache, lock, seen, extras, recent, user, browser_pool, calls>>

InitCache ==
    /\ config = with_ship_key(BaseConfig, 1)
    /\ now = T0
    /\ ticks = 0
    /\ jwks_cache = <<>>
    /\ lock = 0
    /\ tasks = [t \in {1, 2} |-> IdleTask]
    /\ seen = 0
    /\ extras = 0
    /\ recent = <<>>
    /\ last = None
    /\ user = NoUser
    /\ browser_pool = new_with_pool_size(1)
    /\ calls = [c \in Callers |-> IdleCall]

NextCache ==
    \/ \E t \in DOMAIN tasks : ResolveCall(t)
    \/ \E t \in DOMAIN tasks : LockForCheck(t)
    \/ \E t \in DOMAIN tasks : CheckCache(t)
    \/ \E t \in DOMAIN tasks : Fetch(t)
    \/ \E t \in DOMAIN tasks : LockForUpdate(t)
    \/ \E t \in DOMAIN tasks : UpdateCache(t)
    \/ \E t \in DOMAIN tasks : ResolveReturn(t)

SpecCache == InitCache /\ [][NextCache]_vars

-----------------------------------------------------------------------------
(* Vocabulary of the properties *)

\* validate_token has been called by task t (and may have returned).
InCall(t) == tasks[t].caller = "middleware" /\ IsSome(tasks[t].tok) /\ tasks[t].pc # "idle"

\* validate_token has returned to task t.
Validated(t) == InCall(t) /\ tasks[t].pc = "done"

TokOf(t) == Unwrap(tasks[t].tok)

ClaimsOf(t) == TokOf(t).claims

\* The token's header and payload decode.
Decodes(tok) == tok.parts = 3 /\ tok.header_ok /\ tok.payload = "ok"

\* The token was not expired when validate_token looked at the clock.
Unexpired(t) == ClaimsOf(t).exp = None \/ tasks[t].cnow < Unwrap(ClaimsOf(t).exp)

HasMarker(claims) ==
    claims.token_requested_from # None \/ claims.user_id # None \/ claims.customer_id # None

\* The token carries a signature made with the configured shared secret.
SignedWithShipKey(tok) ==
    /\ config.ship_symmetric_key # None
    /\ AlgFamily(tok.sig.alg) = "hmac"
    /\ tok.sig.n = Unwrap(config.ship_symmetric_key)

\* The token carries an RSA signature, under its header's algorithm, made
\* with a key that endpoint url publishes.
SignedByEndpoint(tok, url) ==
    /\ AlgFamily(tok.alg) = "rsa"
    /\ tok.sig.alg = tok.alg
    /\ \E d \in Docs(url) : \E i \in 1..Len(d) :
          d[i].kty = "RSA" /\ d[i].n = Some(tok.sig.n)

\* The configured issuer names that are substrings of the issuer.
MatchingNames(issuer) ==
    {config.jwks_issuers[i][1] : i \in {j \in 1..Len(config.jwks_issuers) :
                                          contains(issuer, config.jwks_issuers[j][1])}}

UrlOfName(name) ==
    config.jwks_issuers[CHOOSE i \in 1..Len(config.jwks_issuers) :
                            config.jwks_issuers[i][1] = name][2]

-----------------------------------------------------------------------------
(* Properties of the service (Spec) *)

\* C1: a token that decodes and whose exp is at or before the clock when
\* validate_token runs (now >= exp, the equality included) gets the outcome
\* Expired, whatever its signature, markers, issuer and the configuration.
ExpiredFirst ==
    \A t \in DOMAIN tasks :
        (/\ Validated(t)
         /\ Decodes(TokOf(t))
         /\ ClaimsOf(t).exp # None
         /\ tasks[t].cnow >= Unwrap(ClaimsOf(t).exp))
        => tasks[t].out = Expired

\* C1 witness: now = exp exactly, a SHIP marker, no shared secret configured.
ExpiredFirstWitness ==
    \E t \in DOMAIN tasks :
        /\ Validated(t)
        /\ Decodes(TokOf(t))
        /\ ClaimsOf(t).exp = Some(tasks[t].cnow)
        /\ HasMarker(ClaimsOf(t))
        /\ config.ship_symmetric_key = None
        /\ tasks[t].out = Expired

\* C2: Valid is returned only for a token whose signature verifies with the
\* shared secret (internal path) or with a key published by the endpoint of
\* a configured issuer contained in its issuer claim (external path), or,
\* with the bypass flag set, for an issuer containing "test".
ValidOnlyIfVerified ==
    \A t \in DOMAIN tasks :
        (Validated(t) /\ tasks[t].out.tag = "Valid")
        => \/ /\ tasks[t].path = "ship"
              /\ SignedWithShipKey(TokOf(t))
           \/ /\ tasks[t].path = "jwks"
              /\ \E name \in MatchingNames(Unwrap(ClaimsOf(t).iss)) :
                    SignedByEndpoint(TokOf(t), UrlOfName(name))
           \/ /\ tasks[t].path = "bypass"
              /\ config.allow_test_tokens
              /\ contains(Unwrap(ClaimsOf(t).iss), TEST)

\* C2 witness: Valid on the external path, the bypass flag unset.
ValidOnlyIfVerifiedWitness ==
    \E t \in DOMAIN tasks :
        /\ Validated(t)
        /\ tasks[t].out.tag = "Valid"
        /\ tasks[t].path = "jwks"
        /\ tasks[t].did.verify
        /\ ~config.allow_test_tokens

\* C3: a request is forwarded to the /html2pdf handler only when the outcome
\* of validate_token for its token is Valid.
ForwardOnlyValid ==
    \A t \in DOMAIN tasks :
        tasks[t].fwd = "forwarded" => tasks[t].out.tag = "Valid"

\* C4: on the external path, a token whose issuer contains no configured
\* issuer name gets the outcome UnknownIssuer(issuer), not an error.
UnknownIssuerIsOutcome ==
    \A t \in DOMAIN tasks :
        (/\ Validated(t)
         /\ tasks[t].path = "jwks"
         /\ MatchingNames(Unwrap(ClaimsOf(t).iss)) = {})
        => tasks[t].out = UnknownIssuer(Unwrap(ClaimsOf(t).iss))

\* C5, as stated: on the external path Valid requires the issuer claim to
\* equal the matched configured issuer name.
ValidOnlyIfIssuerEqual ==
    \A t \in DOMAIN tasks :
        (Validated(t) /\ tasks[t].path = "jwks" /\ tasks[t].out.tag = "Valid")
        => ClaimsOf(t).iss = tasks[t].matched

\* C5, amended: the validation's issuer is the token's own issuer claim, so a
\* token whose issuer merely contains the matched name is Valid when its
\* signature verifies with the resolved key and its exp is present and not
\* more than the leeway in the past.
ValidWithContainedIssuer ==
    \A t \in DOMAIN tasks :
        (/\ Validated(t)
         /\ tasks[t].path = "jwks"
         /\ tasks[t].rres = "Ok"
         /\ ClaimsOf(t).iss # tasks[t].matched
         /\ TokOf(t).sig.alg = TokOf(t).alg
         /\ AlgFamily(TokOf(t).alg) = "rsa"
         /\ TokOf(t).sig.n = Unwrap(tasks[t].key).n
         /\ ClaimsOf(t).exp # None
         /\ Unwrap(ClaimsOf(t).exp) >= tasks[t].vnow - Leeway)
        => tasks[t].out = Valid(ClaimsOf(t))

\* C5 witness: Valid for an issuer claim that properly contains the name.
ValidWithContainedIssuerWitness ==
    \E t \in DOMAIN tasks :
        /\ Validated(t)
        /\ tasks[t].path = "jwks"
        /\ tasks[t].did.verify
        /\ ClaimsOf(t).iss # tasks[t].matched
        /\ contains(Unwrap(ClaimsOf(t).iss), Unwrap(tasks[t].matched))
        /\ tasks[t].out = Valid(ClaimsOf(t))

\* C6: a decodable, unexpired token with one of the three markers takes the
\* internal path even with an iss claim: throughout its call there is no
\* issuer lookup, no bypass check, no cache access and no fetch.
MarkerTakesShipPath ==
    \A t \in DOMAIN tasks :
        (/\ InCall(t)
         /\ Decodes(TokOf(t))
         /\ Unexpired(t)
         /\ HasMarker(ClaimsOf(t)))
        => /\ tasks[t].path = "ship"
           /\ tasks[t].pc \in {"ship_verify", "done"}
           /\ ~tasks[t].did.lookup
           /\ ~tasks[t].did.bypass
           /\ ~tasks[t].did.cache
           /\ tasks[t].did.fetch = 0

\* C6 witness: a token with only userId as marker and with an iss claim of a
\* configured issuer, verified on the internal path.
MarkerTakesShipPathWitness ==
    \E t \in DOMAIN tasks :
        /\ Validated(t)
        /\ Unexpired(t)
        /\ ClaimsOf(t).user_id # None
        /\ ClaimsOf(t).token_requested_from = None
        /\ ClaimsOf(t).customer_id = None
        /\ ClaimsOf(t).iss = Some(KC)
        /\ tasks[t].path = "ship"
        /\ tasks[t].out.tag = "Valid"

\* C7: a decodable, unexpired token with no marker and no iss claim fails
\* with the error InvalidTokenFormat.
NoIssuerIsMalformed ==
    \A t \in DOMAIN tasks :
        (/\ Validated(t)
         /\ Decodes(TokOf(t))
         /\ Unexpired(t)
         /\ ~HasMarker(ClaimsOf(t))
         /\ ClaimsOf(t).iss = None)
        => tasks[t].out = Err("InvalidTokenFormat")

\* C7 witness: such a token, rejected.
NoIssuerIsMalformedWitness ==
    \E t \in DOMAIN tasks :
        /\ Validated(t)
        /\ Decodes(TokOf(t))
        /\ Unexpired(t)
        /\ ~HasMarker(ClaimsOf(t))
        /\ ClaimsOf(t).iss = None
        /\ tasks[t].out.kind = "Err"
        /\ tasks[t].fwd = "rejected"

TestBypass ==
    \A t \in DOMAIN tasks :
        (/\ InCall(t)
         /\ Decodes(TokOf(t))
         /\ Unexpired(t)
         /\ ~HasMarker(ClaimsOf(t))
         /\ ClaimsOf(t).iss # None
         /\ contains(Unwrap(ClaimsOf(t).iss), TEST))
        => IF config.allow_test_tokens
           THEN /\ tasks[t].pc = "done"
                /\ tasks[t].out = Valid(ClaimsOf(t))
                /\ tasks[t].path = "bypass"
                /\ ~tasks[t].did.verify
                /\ ~tasks[t].did.lookup
                /\ ~tasks[t].did.cache
                /\ tasks[t].did.fetch = 0
           ELSE /\ tasks[t].path = "jwks"
                /\ tasks[t].did.lookup

\* C9 witness: a token with a forged signature, Valid through the bypass.
TestBypassWitness ==
    \E t \in DOMAIN tasks :
        /\ Validated(t)
        /\ config.allow_test_tokens
        /\ ClaimsOf(t).iss # None
        /\ contains(Unwrap(ClaimsOf(t).iss), TEST)
        /\ TokOf(t).sig.n = 999
        /\ tasks[t].path = "bypass"
        /\ tasks[t].out = Valid(ClaimsOf(t))
        /\ tasks[t].fwd = "forwarded"

-----------------------------------------------------------------------------
(* Properties of the key cache (SpecCache) *)

CachedUrls == {jwks_cache[i].url : i \in 1..Len(jwks_cache)}

\* C10: in every reachable state, under every interleaving of resolve calls,
\* the cache holds at most 10 endpoints.
CacheBound ==
    /\ Len(jwks_cache) <= Capacity
    /\ Cardinality(CachedUrls) <= Capacity

\* C10 witness: eleven endpoints have been resolved, the cache is full and
\* holds the eleventh.
CacheBoundWitness ==
    /\ seen = Capacity + 1
    /\ Len(jwks_cache) = Capacity
    /\ (Capacity + 1) \in CachedUrls

\* C11: the cache holds exactly the endpoints whose last hit or insertion is
\* latest, up to its capacity: whenever an insertion has dropped an endpoint,
\* every endpoint still cached was hit or inserted after the last hit or
\* insertion of every endpoint that is gone. After eleven distinct endpoints
\* ten are cached and the absent one is the least recently resolved.
LruEviction ==
    /\ Len(jwks_cache) = (IF Len(recent) < Capacity THEN Len(recent) ELSE Capacity)
    /\ \A i \in 1..Len(jwks_cache) : jwks_cache[i].url = recent[i]

\* C11 witness: eleven distinct endpoints were resolved one after the other,
\* every fetch succeeding; ten are cached and the first is gone.
LruEvictionWitness ==
    /\ extras = 0
    /\ \A t \in DOMAIN tasks : ~Busy(t)
    /\ Len(recent) = Capacity + 1
    /\ Len(jwks_cache) = Capacity
    /\ recent[Capacity + 1] = 1
    /\ 1 \notin CachedUrls

\* A resolve call of task t has its result, and it is the second of two calls
\* made in sequence for the same endpoint and key id, nothing else in flight
\* from the start of the first to this point.
SecondCall(t) ==
    /\ tasks[t].caller = "direct"
    /\ tasks[t].pc = "resolved"
    /\ tasks[t].after # None

FirstCall(t) == tasks[t].after[1]

HitStep(t) == tasks[t].pc = "r_check" /\ tasks'[t].pc = "resolved"

CachedKeys(cache, url) == cache[KeysOf(cache, url)].keys

\* The key mappings a successful fetch of endpoint url can build.
AllMappings ==
    [url \in 1..NEndpoints |->
        {parse_jwks(resp)[2] : resp \in {r \in Responses(url) : parse_jwks(r)[1] = "Ok"}}]

Mappings(url) == AllMappings[url]

\* The step is task t's cache update after a successful fetch.
PutStep(t) == tasks[t].pc = "w_put" /\ tasks'[t].pc = "resolved"

\* C14: after a successful refresh the endpoint's entry is exactly the mapping
\* built from that fetch, with none of the key ids only the previous entry
\* had, and every other endpoint still cached has the entry it had before.
RefreshReplaces ==
    [][ \A t \in DOMAIN tasks :
            PutStep(t) =>
                /\ Cached(jwks_cache', tasks[t].url)
                /\ CachedKeys(jwks_cache', tasks[t].url) = tasks[t].built
                /\ tasks[t].built \in Mappings(tasks[t].url)
                /\ CachedUrls' \subseteq CachedUrls \cup {tasks[t].url}
                /\ \A u \in CachedUrls' \ {tasks[t].url} :
                       CachedKeys(jwks_cache', u) = CachedKeys(jwks_cache, u)
      ]_vars

\* C14 witness: an endpoint cached with key id 1 has been refreshed from a
\* document without it, and its entry no longer has key id 1.
RefreshReplacesWitness ==
    \E t \in DOMAIN tasks :
        /\ tasks[t].pc = "resolved"
        /\ tasks[t].did.had
        /\ tasks[t].did.fetch = 1
        /\ 1 \in DOMAIN tasks[t].old
        /\ 1 \notin DOMAIN tasks[t].built
        /\ \A u \in DOMAIN tasks : u # t => ~Busy(u)
        /\ Cached(jwks_cache, tasks[t].url)
        /\ CachedKeys(jwks_cache, tasks[t].url) = tasks[t].built
        /\ Len(jwks_cache) > 1

\* Task t's look-up did not find its key id: the endpoint was not cached, or
\* its entry did not have the key id.
Missed(t) ==
    /\ tasks[t].did.cache
    /\ ~(tasks[t].did.had /\ tasks[t].kid \in DOMAIN tasks[t].old)

\* C15: every resolve call whose look-up does not find the key id goes on to
\* fetch the endpoint's key set, whether the endpoint is uncached or cached
\* without the key id, and whatever earlier calls failed to find.
NoNegativeCaching ==
    \A t \in DOMAIN tasks :
        Missed(t) => tasks[t].pc = "fetch" \/ tasks[t].did.fetch = 1

\* C15 witness: a call that repeats one that did not find its key id has
\* found the endpoint cached without it, and has fetched the key set again.
NoNegativeCachingWitness ==
    \E t \in DOMAIN tasks :
        /\ SecondCall(t)
        /\ FirstCall(t).rres = "InvalidTokenFormat"
        /\ Missed(t)
        /\ tasks[t].did.had
        /\ tasks[t].did.fetch = 1

\* C16: under every interleaving of resolve calls, concurrent ones for the
\* same endpoint included, each cached entry is the complete mapping of one
\* fetch of its endpoint, never a mixture of two, and a cache update leaves
\* the mapping of the call that makes it.
WholeEntries ==
    /\ [](\A i \in 1..Len(jwks_cache) : jwks_cache[i].keys \in Mappings(jwks_cache[i].url))
    /\ [][ \A t \in DOMAIN tasks :
               PutStep(t) => jwks_cache'[1] = Entry(tasks[t].url, tasks[t].built) ]_vars

\* C16 witness: two concurrent calls found the same endpoint uncached, each
\* fetched its own document and stored it; the entry is the mapping of one of
\* them and differs from the other's.
WholeEntriesWitness ==
    \E t, u \in DOMAIN tasks :
        /\ t # u
        /\ tasks[t].url = tasks[u].url
        /\ \A w \in {t, u} :
              /\ tasks[w].pc = "resolved"
              /\ tasks[w].did.cache
              /\ ~tasks[w].did.had
              /\ tasks[w].did.fetch = 1
              /\ tasks[w].rres = "Ok"
        /\ tasks[t].built # tasks[u].built
        /\ Cached(jwks_cache, tasks[t].url)
        /\ CachedKeys(jwks_cache, tasks[t].url) = tasks[t].built

\* The tasks inside the cache's lock.
Inside == {t \in DOMAIN tasks : tasks[t].pc \in {"r_check", "w_put"}}

\* C17: the cache's lock is held only for the look-up and for the update,
\* never while a fetch is in flight, and by one task at a time; so a call
\* waiting for the lock never waits for another task's fetch.
LockDiscipline ==
    /\ lock \in {0} \cup DOMAIN tasks
    /\ Cardinality(Inside) <= 1
    /\ \A t \in DOMAIN tasks : lock = t <=> t \in Inside
    /\ \A t \in DOMAIN tasks : tasks[t].pc \in {"fetch", "w_lock"} => lock # t
    /\ (\E t \in DOMAIN tasks : tasks[t].pc = "r_lock") /\ Inside = {} => lock = 0

\* C17 witness: while one task's fetch is in flight, another task holds the
\* lock for a look-up that finds its key in the cache.
LockDisciplineWitness ==
    \E t, u \in DOMAIN tasks :
        /\ tasks[t].pc = "fetch"
        /\ tasks[u].pc = "r_check"
        /\ lock = u
        /\ Cached(jwks_cache, tasks[u].url)
        /\ tasks[u].kid \in DOMAIN CachedKeys(jwks_cache, tasks[u].url)

-----------------------------------------------------------------------------
(* Failures of the two paths (Spec) *)

\* The step is the failure of task t's fetch: of the GET, of the body's
\* JSON, or of the decoding of a key.
FetchFailStep(t) == tasks[t].pc = "fetch" /\ tasks'[t].pc = "resolved"

\* C18: when the fetch or the decoding of a key set fails, the cache is left
\* as it is, the call has no key, and validate_token fails with the error of
\* the fetch after that one fetch, without verifying anything; the endpoint's
\* entry, if it had one, is the one the look-up saw.
FetchFailureIsFatal ==
    /\ [][ \A t \in DOMAIN tasks :
               FetchFailStep(t) =>
                   /\ jwks_cache' = jwks_cache
                   /\ tasks'[t].key = None
                   /\ tasks'[t].rres \in {"RequestError", "InvalidTokenFormat"} ]_vars
    /\ [](\A t \in DOMAIN tasks :
              Validated(t) /\ tasks[t].did.failed =>
                  /\ tasks[t].out = Err(tasks[t].rres)
                  /\ tasks[t].out.kind = "Err"
                  /\ tasks[t].fwd = "rejected"
                  /\ tasks[t].did.fetch = 1
                  /\ ~tasks[t].did.verify
                  /\ Cached(jwks_cache, tasks[t].url) <=> tasks[t].did.had
                  /\ tasks[t].did.had =>
                         CachedKeys(jwks_cache, tasks[t].url) = tasks[t].old)

\* C18 witness: the endpoint was cached without the token's key id, the fetch
\* failed, validate_token returned the error and the stale entry is as it was.
FetchFailureIsFatalWitness ==
    \E t \in DOMAIN tasks :
        /\ Validated(t)
        /\ tasks[t].did.failed
        /\ tasks[t].did.had
        /\ DOMAIN tasks[t].old # {}
        /\ tasks[t].out = Err("RequestError")
        /\ tasks[t].fwd = "rejected"
        /\ Cached(jwks_cache, tasks[t].url)
        /\ CachedKeys(jwks_cache, tasks[t].url) = tasks[t].old

\* C19: with no shared secret configured, every decodable, unexpired token
\* with a marker makes validate_token fail with the error MissingConfig,
\* whatever its signature, before any verification; the request is rejected.
MissingSecretIsFatal ==
    \A t \in DOMAIN tasks :
        (/\ InCall(t)
         /\ Decodes(TokOf(t))
         /\ Unexpired(t)
         /\ HasMarker(ClaimsOf(t))
         /\ config.ship_symmetric_key = None)
        => /\ tasks[t].pc = "done"
           /\ tasks[t].path = "ship"
           /\ tasks[t].out = Err("MissingConfig")
           /\ tasks[t].out.kind = "Err"
           /\ tasks[t].fwd = "rejected"
           /\ ~tasks[t].did.verify
           /\ tasks[t].key = None

\* C19 witness: a marked token signed with HS256 under secret 1 has failed
\* with MissingConfig.
MissingSecretIsFatalWitness ==
    \E t \in DOMAIN tasks :
        /\ Validated(t)
        /\ Decodes(TokOf(t))
        /\ Unexpired(t)
        /\ HasMarker(ClaimsOf(t))
        /\ config.ship_symmetric_key = None
        /\ TokOf(t).alg = "HS256"
        /\ AlgFamily(TokOf(t).sig.alg) = "hmac"
        /\ TokOf(t).sig.n = 1
        /\ tasks[t].out = Err("MissingConfig")

-----------------------------------------------------------------------------
(* serde_json::Value, as far as resource_access is inspected. A value is a  *)
(* record: its key when it is a member of an object, its type, its text    *)
(* when it is a string or a number, its items when it is an array or an    *)
(* object (the members, in the order the map iterates them).               *)

JStr(text) == [k |-> "", t |-> "str", s |-> text, items |-> <<>>]

JNum(text) == [k |-> "", t |-> "num", s |-> text, items |-> <<>>]

JArr(items) == [k |-> "", t |-> "arr", s |-> "", items |-> items]

JObj(members) == [k |-> "", t |-> "obj", s |-> "", items |-> members]

Member(key, v) == [v EXCEPT !.k = key]

\* Value::get(&str): the member of an object with that key.
get(v, key) ==
    IF v.t = "obj" /\ \E i \in 1..Len(v.items) : v.items[i].k = key
    THEN Some(v.items[CHOOSE i \in 1..Len(v.items) : v.items[i].k = key])
    ELSE None

as_array(v) == IF v.t = "arr" THEN Some(v.items) ELSE None

as_str(v) == IF v.t = "str" THEN Some(v.s) ELSE None

as_object(v) == IF v.t = "obj" THEN Some(v.items) ELSE None

-----------------------------------------------------------------------------
(* User::from_claims and get_user_from_token *)

\* for role in roles_array { if let Some(role_str) = role.as_str() { push } }
RECURSIVE push_roles(_, _)
push_roles(roles, roles_array) ==
    IF roles_array = <<>> THEN roles
    ELSE push_roles(IF as_str(Head(roles_array)) # None
                    THEN Append(roles, Unwrap(as_str(Head(roles_array))))
                    ELSE roles,
                    Tail(roles_array))

\* if let Some(r) = client.get("roles") { if let Some(a) = r.as_array() {..} }
push_client(roles, client_data) ==
    LET r == get(client_data, "roles")
    IN  IF r # None /\ as_array(Unwrap(r)) # None
        THEN push_roles(roles, Unwrap(as_array(Unwrap(r))))
        ELSE roles

\* for (_client, client_data) in obj { .. }
RECURSIVE push_clients(_, _)
push_clients(roles, obj) ==
    IF obj = <<>> THEN roles
    ELSE push_clients(push_client(roles, Head(obj)), Tail(obj))

\* Faulty variant: the roles of every client, "tms" or not.
extract_roles_of_all_clients(claims) ==
    IF claims.resource_access = None THEN <<>>
    ELSE IF as_object(Unwrap(claims.resource_access)) = None THEN <<>>
    ELSE push_clients(<<>>, Unwrap(as_object(Unwrap(claims.resource_access))))

extract_roles_from_claims(claims) ==
    IF claims.resource_access = None THEN <<>>
    ELSE LET resource_access == Unwrap(claims.resource_access)
             tms == get(resource_access, "tms")
             roles == IF tms # None THEN push_client(<<>>, Unwrap(tms)) ELSE <<>>
         IN  IF roles # <<>> THEN roles
             ELSE IF as_object(resource_access) = None THEN roles
             ELSE push_clients(roles, Unwrap(as_object(resource_access)))

\* Faulty variant: sub before user_id.
from_claims_sub_first(claims) ==
    [id |-> IF claims.sub # None THEN Unwrap(claims.sub)
            ELSE IF claims.user_id # None THEN Unwrap(claims.user_id)
            ELSE "",
     email |-> claims.email,
     name |-> claims.name,
     roles |-> extract_roles_from_claims(claims)]

\* User::from_claims: user_id before sub, the empty string without both.
from_claims(claims) ==
    [id |-> IF claims.user_id # None THEN Unwrap(claims.user_id)
            ELSE IF claims.sub # None THEN Unwrap(claims.sub)
            ELSE "",
     email |-> claims.email,
     name |-> claims.name,
     roles |-> extract_roles_from_claims(claims)]

NoUserValue == [id |-> "", email |-> None, name |-> None, roles |-> <<>>]

\* get_user_from_token: Result<User>
get_user_from_token(tok) ==
    LET r == decode_token_unsafe(tok)
    IN  IF r.kind = "Ok" THEN [kind |-> "Ok", err |-> "", user |-> from_claims(tok.claims)]
        ELSE [kind |-> "Err", err |-> r.tag, user |-> NoUserValue]

-----------------------------------------------------------------------------
(* get_user_from_token on its own: the tokens it is given *)

\* A client's data with a "roles" array.
Roles(items) == JObj(<<Member("roles", JArr(items))>>)

\* What the token may say under "tms": not an object, no "roles", "roles"
\* not an array, no role, string roles, roles that are not strings.
TmsDatas ==
    { JStr("x"), JObj(<<>>), JObj(<<Member("roles", JStr("a"))>>),
      Roles(<<>>), Roles(<<JStr("a")>>), Roles(<<JStr("a"), JStr("b")>>),
      Roles(<<JNum("7")>>), Roles(<<JNum("7"), JStr("a")>>) }

OtherDatas == { Roles(<<>>), Roles(<<JStr("b")>>), Roles(<<JStr("c"), JStr("a")>>) }

AppDatas == { Roles(<<JStr("d")>>) }

\* No member, or one member with that key.
Opt(key, datas) == {<<>>} \cup {<<Member(key, d)>> : d \in datas}

\* The members of resource_access, as the map iterates them: sorted by key,
\* or in the order of the document.
Objects ==
    {a \o o \o t : a \in Opt("app", AppDatas), o \in Opt("other", OtherDatas),
                   t \in Opt("tms", TmsDatas)}
    \cup {<<Member("tms", t), Member("other", o)>> : t \in TmsDatas, o \in OtherDatas}

ResourceAccesses ==
    {None, Some(JStr("x")), Some(JArr(<<JStr("a")>>))} \cup {Some(JObj(m)) : m \in Objects}

UserClaims ==
    { [sub |-> sub, user_id |-> uid, email |-> Some("e"), name |-> None,
       resource_access |-> ra] :
        sub \in {None, Some("s1")}, uid \in {None, Some("u1")}, ra \in ResourceAccesses }

NoUserClaims ==
    [sub |-> None, user_id |-> None, email |-> None, name |-> None, resource_access |-> None]

UserTok(parts, payload, claims) ==
    [parts |-> parts, header_ok |-> TRUE, payload |-> payload, claims |-> claims]

UserTokens ==
    {UserTok(3, "ok", c) : c \in UserClaims}
    \cup {UserTok(2, "ok", NoUserClaims), UserTok(4, "ok", NoUserClaims),
          UserTok(3, "b64", NoUserClaims), UserTok(3, "json", NoUserClaims)}

\* get_user_from_token(token), from call to return.
GetUser ==
    /\ user.pc = "called"
    /\ user' = [user EXCEPT !.pc = "returned",
                            !.out = Some(get_user_from_token(Unwrap(user.tok)))]
    /\ UNCHANGED <<config, now, ticks, jwks_cache, lock, tasks, seen, extras, recent, last, browser_pool, calls>>

InitUser ==
    /\ config = BaseConfig
    /\ now = T0
    /\ ticks = 0
    /\ jwks_cache = <<>>
    /\ lock = 0
    /\ tasks = [t \in {1} |-> IdleTask]
    /\ seen = 0
    /\ extras = 0
    /\ recent = <<>>
    /\ last = None
    /\ user \in {[pc |-> "called", tok |-> Some(tok), out |-> None] : tok \in UserTokens}
    /\ browser_pool = new_with_pool_size(1)
    /\ calls = [c \in Callers |-> IdleCall]

NextUser == GetUser

SpecUser == InitUser /\ [][NextUser]_vars

-----------------------------------------------------------------------------
(* Properties of the Identity (SpecUser) *)

\* get_user_from_token has returned a User.
UserReturned == user.pc = "returned" /\ user.out # None /\ user.out[1].kind = "Ok"

UserOut == user.out[1].user

UserIn == user.tok[1].claims

\* The clients of a resource_access claim, in the order of the map.
Clients(ra) == IF ra # None /\ ra[1].t = "obj" THEN ra[1].items ELSE <<>>

HasClient(ra, name) == \E i \in 1..Len(Clients(ra)) : Clients(ra)[i].k = name

\* The client has a role list: it is an object whose "roles" is an array.
HasRoleList(c) ==
    /\ c.t = "obj"
    /\ \E i \in 1..Len(c.items) : c.items[i].k = "roles" /\ c.items[i].t = "arr"

RoleList(c) ==
    IF HasRoleList(c)
    THEN c.items[CHOOSE i \in 1..Len(c.items) : c.items[i].k = "roles"].items
    ELSE <<>>

\* The roles a role list names: its strings, in order.
StringsIn(items) ==
    LET strs == SelectSeq(items, LAMBDA v : v.t = "str")
    IN  [i \in 1..Len(strs) |-> strs[i].s]

TmsList(ra) ==
    IF HasClient(ra, "tms")
    THEN RoleList(Clients(ra)[CHOOSE i \in 1..Len(Clients(ra)) : Clients(ra)[i].k = "tms"])
    ELSE <<>>

TmsHasList(ra) ==
    /\ HasClient(ra, "tms")
    /\ HasRoleList(Clients(ra)[CHOOSE i \in 1..Len(Clients(ra)) : Clients(ra)[i].k = "tms"])

\* The roles of the clients other than "tms", one client after the other.
RECURSIVE OtherRoles(_)
OtherRoles(clients) ==
    IF clients = <<>> THEN <<>>
    ELSE (IF Head(clients).k = "tms" THEN <<>> ELSE StringsIn(RoleList(Head(clients))))
         \o OtherRoles(Tail(clients))

UserDecodes == user.tok # None /\ user.tok[1].parts = 3 /\ user.tok[1].payload = "ok"

\* C21: for a token whose claims decode, get_user_from_token returns a User
\* and no error; its id is userId when the claims have one, else sub when
\* they have one, else the empty string.
IdPreference ==
    user.pc = "returned" /\ UserDecodes =>
        /\ UserReturned
        /\ UserIn.user_id # None => UserOut.id = UserIn.user_id[1]
        /\ UserIn.user_id = None /\ UserIn.sub # None => UserOut.id = UserIn.sub[1]
        /\ UserIn.user_id = None /\ UserIn.sub = None => UserOut.id = ""

\* C21 witness: claims with userId "u1" and sub "s1" gave the id "u1".
IdPreferenceWitness ==
    /\ UserReturned
    /\ UserIn.user_id = Some("u1")
    /\ UserIn.sub = Some("s1")
    /\ UserOut.id = "u1"

-----------------------------------------------------------------------------
(* More properties of the service (Spec) *)

\* Task t's token decodes and its exp was at or before the clock when
\* validate_token looked at it.
ExpiredAtCall(t) ==
    /\ InCall(t)
    /\ Decodes(TokOf(t))
    /\ ClaimsOf(t).exp # None
    /\ tasks[t].cnow >= Unwrap(ClaimsOf(t).exp)

\* C22: a validation call that ends in Expired through the expiration check
\* has looked nothing up, has not touched the key cache, has fetched nothing
\* and has verified nothing; the step that makes the call leaves the cache's
\* contents, its order and its lock as they are.
ExpiredNoSideEffect ==
    /\ [](\A t \in DOMAIN tasks :
              ExpiredAtCall(t) =>
                  /\ tasks[t].pc = "done"
                  /\ tasks[t].out = Expired
                  /\ ~tasks[t].did.lookup
                  /\ ~tasks[t].did.bypass
                  /\ ~tasks[t].did.cache
                  /\ tasks[t].did.fetch = 0
                  /\ ~tasks[t].did.verify
                  /\ tasks[t].key = None)
    /\ [][ \A t \in DOMAIN tasks :
               tasks[t].pc = "idle" /\ tasks'[t].pc = "done" /\ tasks'[t].out = Expired
                   => /\ jwks_cache' = jwks_cache
                      /\ recent' = recent
                      /\ lock' = lock ]_vars

\* C22 witness: with an endpoint cached, an expired token of a configured
\* issuer, with a key id, ended in Expired without a look at the cache.
ExpiredNoSideEffectWitness ==
    \E t \in DOMAIN tasks :
        /\ ExpiredAtCall(t)
        /\ ~HasMarker(ClaimsOf(t))
        /\ ClaimsOf(t).iss = Some(KC)
        /\ TokOf(t).kid # None
        /\ tasks[t].out = Expired
        /\ ~tasks[t].did.cache
        /\ Len(jwks_cache) > 0

\* validate_token has returned for a token that took the internal path with
\* a shared secret configured.
ShipVerified(t) ==
    /\ Validated(t)
    /\ Decodes(TokOf(t))
    /\ Unexpired(t)
    /\ HasMarker(ClaimsOf(t))
    /\ config.ship_symmetric_key # None

\* What the library's verification said of task t's token, with the shared
\* secret and HS256, at the time of the verification.
ShipCause(t) ==
    LibDecode(TokOf(t), from_secret(Unwrap(config.ship_symmetric_key)), {"HS256"}, FALSE,
              None, tasks[t].vnow)

\* C23: on the internal path with a shared secret, a verification that fails
\* because the signature has expired gives Expired; one that fails for any
\* other cause gives Invalid with the one reason "All key formats failed";
\* none gives an error.
ShipFailureMapping ==
    \A t \in DOMAIN tasks :
        ShipVerified(t) =>
            /\ tasks[t].out.kind = "Ok"
            /\ ShipCause(t) = "ExpiredSignature" => tasks[t].out = Expired
            /\ ShipCause(t) \notin {"Ok", "ExpiredSignature"}
                  => tasks[t].out = Invalid("All key formats failed")

\* C23 witness: a token signed with another secret gave Invalid with the
\* generic reason.
ShipFailureMappingWitness ==
    \E t \in DOMAIN tasks :
        /\ ShipVerified(t)
        /\ ShipCause(t) = "InvalidSignature"
        /\ tasks[t].out = Invalid("All key formats failed")
        /\ tasks[t].fwd = "forwarded"

\* C24: on the external path the issuer is resolved before the key id is
\* looked at: a token of a configured issuer without kid fails with
\* InvalidTokenFormat before any cache access or fetch, and a token of no
\* configured issuer gets the outcome UnknownIssuer(issuer), with a kid or
\* without.
IssuerBeforeKid ==
    \A t \in DOMAIN tasks :
        Validated(t) /\ tasks[t].path = "jwks" =>
            /\ MatchingNames(Unwrap(ClaimsOf(t).iss)) # {} /\ TokOf(t).kid = None
                  => /\ tasks[t].out = Err("InvalidTokenFormat")
                     /\ ~tasks[t].did.cache
                     /\ tasks[t].did.fetch = 0
            /\ MatchingNames(Unwrap(ClaimsOf(t).iss)) = {}
                  => tasks[t].out = UnknownIssuer(Unwrap(ClaimsOf(t).iss))

-----------------------------------------------------------------------------
(* More properties of the key cache (SpecCache) *)

\* C25: when the fetch succeeds and the mapping built from it lacks the key
\* id, the call fails with InvalidTokenFormat and without a key, and the
\* cache update has all the same stored the mapping as the endpoint's entry,
\* dropping the least recently used endpoint when the cache was full and the
\* endpoint new.
MissingKidStillCached ==
    [][ \A t \in DOMAIN tasks :
            PutStep(t) /\ tasks[t].kid \notin DOMAIN tasks[t].built =>
                /\ tasks'[t].rres = "InvalidTokenFormat"
                /\ tasks'[t].key = None
                /\ Len(jwks_cache') > 0
                /\ jwks_cache'[1] = Entry(tasks[t].url, tasks[t].built)
                /\ Len(jwks_cache) = Capacity /\ ~Cached(jwks_cache, tasks[t].url)
                      => /\ Len(jwks_cache') = Capacity
                         /\ CachedUrls \ CachedUrls' = {jwks_cache[Capacity].url}
                         /\ recent[Capacity] = jwks_cache[Capacity].url
      ]_vars

\* C25 witness: with the cache full, a call for an eleventh endpoint fetched
\* a mapping without its key id and failed; the mapping is cached and the
\* first endpoint is gone.
MissingKidStillCachedWitness ==
    \E t \in DOMAIN tasks :
        /\ tasks[t].caller = "direct"
        /\ tasks[t].pc = "resolved"
        /\ tasks[t].url = Capacity + 1
        /\ tasks[t].did.fetch = 1
        /\ ~tasks[t].did.failed
        /\ tasks[t].kid \notin DOMAIN tasks[t].built
        /\ tasks[t].rres = "InvalidTokenFormat"
        /\ Cached(jwks_cache, tasks[t].url)
        /\ CachedKeys(jwks_cache, tasks[t].url) = tasks[t].built
        /\ Len(jwks_cache) = Capacity
        /\ 1 \notin CachedUrls

-----------------------------------------------------------------------------
(* Tokens that do not have three segments *)

\* C26 as stated: a token whose segment count is not three fails with
\* InvalidTokenFormat from validate_token as it does from
\* get_user_from_token.
SegmentCountIsInvalidTokenFormat ==
    /\ \A t \in DOMAIN tasks :
           Validated(t) /\ TokOf(t).parts # 3 => tasks[t].out = Err("InvalidTokenFormat")
    /\ \A tok \in UserTokens :
           tok.parts # 3 => get_user_from_token(tok).err = "InvalidTokenFormat"

\* C26: a token whose segment count is not three never yields an outcome or
\* an identity: claims decoding and get_user_from_token fail with
\* InvalidTokenFormat, and validate_token fails before claims decoding, with
\* the library's error from decoding the header; the request is rejected
\* and neither the cache nor an endpoint is touched.
SegmentCountIsFatal ==
    /\ \A t \in DOMAIN tasks :
           Validated(t) /\ TokOf(t).parts # 3 =>
               /\ tasks[t].out = Err("JwtError")
               /\ tasks[t].fwd = "rejected"
               /\ ~tasks[t].did.cache
               /\ tasks[t].did.fetch = 0
    /\ \A tok \in Tokens :
           tok.parts # 3 => decode_token_unsafe(tok) = Err("InvalidTokenFormat")
    /\ \A tok \in UserTokens :
           tok.parts # 3 =>
               get_user_from_token(tok) =
                   [kind |-> "Err", err |-> "InvalidTokenFormat", user |-> NoUserValue]

SegmentCountIsFatalWitness ==
    \E t \in DOMAIN tasks :
        /\ Validated(t)
        /\ TokOf(t).parts \in {2, 4}
        /\ tasks[t].out = Err("JwtError")

-----------------------------------------------------------------------------
(* BrowserPool: print_to_pdf, one action per step between two awaits.  The
   page_pool mutex is held for the whole of each access to page_pool, so
   each access is one step. *)

OtherVars == <<config, now, ticks, jwks_cache, lock, tasks, seen, extras, recent, last, user>>

\* The call has acquired its permit and has not left print_to_pdf.
PastSemaphore == {"get", "new_page", "set_content", "pdf", "return"}

\* Leaving print_to_pdf: _permit is dropped, whatever the result.
Leave(st, result, page_end) ==
    [st EXCEPT !.pc = "done", !.page = None, !.permit = FALSE,
               !.result = result, !.page_end = page_end]

\* print_to_pdf is called.
CallPrint(c) ==
    /\ calls[c].pc = "idle"
    /\ calls' = [calls EXCEPT ![c].pc = "acquire"]
    /\ UNCHANGED <<browser_pool>>
    /\ UNCHANGED OtherVars

\* semaphore.acquire(): waits until a permit is available and takes it.
Acquire(c) ==
    /\ calls[c].pc = "acquire"
    /\ browser_pool.semaphore > 0
    /\ browser_pool' = [browser_pool EXCEPT !.semaphore = @ - 1]
    /\ calls' = [calls EXCEPT ![c].pc = "get", ![c].permit = TRUE]
    /\ UNCHANGED OtherVars

\* Faulty variant: a page is never taken from the pool.
GetPage_never_pops(c) ==
    /\ calls[c].pc = "get"
    /\ calls' = [calls EXCEPT ![c].pc = "new_page"]
    /\ UNCHANGED <<browser_pool>>
    /\ UNCHANGED OtherVars

\* get_or_create_page, under the lock: pop the last page of the pool if
\* there is one, otherwise go on to open a new page.
GetPage(c) ==
    /\ calls[c].pc = "get"
    /\ IF Len(browser_pool.page_pool) > 0
       THEN /\ browser_pool' =
                  [browser_pool EXCEPT
                      !.page_pool = SubSeq(@, 1, Len(@) - 1)]
            /\ calls' = [calls EXCEPT
                  ![c].pc = "set_content",
                  ![c].page = Some(browser_pool.page_pool[Len(browser_pool.page_pool)])]
       ELSE /\ calls' = [calls EXCEPT ![c].pc = "new_page"]
            /\ UNCHANGED <<browser_pool>>
    /\ UNCHANGED OtherVars

\* Faulty variant: a failed call keeps its permit.
Fail_keeps_permit(c) ==
    /\ calls[c].pc \in {"new_page", "set_content", "pdf"}
    /\ calls' = [calls EXCEPT ![c] = Leave(@, "Err", IF IsSome(@.page) THEN "dropped" ELSE "")]
    /\ UNCHANGED <<browser_pool>>
    /\ UNCHANGED OtherVars

\* browser.new_page, page.set_content or page.pdf fails: `?` returns the
\* error; the page, if the call has one, is dropped without going back to
\* the pool, and the permit is released.
Fail(c) ==
    /\ calls[c].pc \in {"new_page", "set_content", "pdf"}
    /\ browser_pool' = [browser_pool EXCEPT !.semaphore = @ + 1]
    /\ calls' = [calls EXCEPT ![c] = Leave(@, "Err", IF IsSome(@.page) THEN "dropped" ELSE "")]
    /\ UNCHANGED OtherVars

\* browser.new_page("about:blank") succeeds.
NewPage(c) ==
    /\ calls[c].pc = "new_page"
    /\ browser_pool' = [browser_pool EXCEPT !.browser = @ + 1]
    /\ calls' = [calls EXCEPT ![c].pc = "set_content",
                              ![c].page = Some(browser_pool.browser + 1)]
    /\ UNCHANGED OtherVars

\* page.set_content(html) succeeds.
SetContent(c) ==
    /\ calls[c].pc = "set_content"
    /\ calls' = [calls EXCEPT ![c].pc = "pdf"]
    /\ UNCHANGED <<browser_pool>>
    /\ UNCHANGED OtherVars

\* page.pdf(params) succeeds.
Pdf(c) ==
    /\ calls[c].pc = "pdf"
    /\ calls' = [calls EXCEPT ![c].pc = "return"]
    /\ UNCHANGED <<browser_pool>>
    /\ UNCHANGED OtherVars

\* return_page_to_pool, under the lock: push the page if the pool is not
\* full, close it otherwise.
return_page_to_pool(bp, page) ==
    IF Len(bp.page_pool) < bp.max_pool_size
    THEN [bp EXCEPT !.page_pool = Append(@, page)]
    ELSE bp

\* The end of print_to_pdf: the page goes back, Ok(pdf_result) is returned
\* and the permit is released.
ReturnPage(c) ==
    /\ calls[c].pc = "return"
    /\ LET bp == return_page_to_pool(browser_pool, Unwrap(calls[c].page))
       IN  /\ browser_pool' = [bp EXCEPT !.semaphore = @ + 1]
           /\ calls' = [calls EXCEPT ![c] =
                  Leave(@, "Ok",
                        IF Len(browser_pool.page_pool) < browser_pool.max_pool_size
                        THEN "pooled" ELSE "closed")]
    /\ UNCHANGED OtherVars

\* cleanup: every page of the pool is closed.
Cleanup ==
    /\ browser_pool' = [browser_pool EXCEPT !.page_pool = <<>>]
    /\ UNCHANGED <<calls>>
    /\ UNCHANGED OtherVars

InitPool ==
    /\ config = BaseConfig
    /\ now = T0
    /\ ticks = 0
    /\ jwks_cache = <<>>
    /\ lock = 0
    /\ tasks = [t \in {1} |-> IdleTask]
    /\ seen = 0
    /\ extras = 0
    /\ recent = <<>>
    /\ last = None
    /\ user = NoUser
    /\ browser_pool \in {new_with_pool_size(n) : n \in 1..MaxTabs}
    /\ calls = [c \in Callers |-> IdleCall]

NextPool ==
    \/ \E c \in Callers : CallPrint(c)
    \/ \E c \in Callers : Acquire(c)
    \/ \E c \in Callers : GetPage(c)
    \/ \E c \in Callers : NewPage(c)
    \/ \E c \in Callers : SetContent(c)
    \/ \E c \in Callers : Pdf(c)
    \/ \E c \in Callers : Fail(c)
    \/ \E c \in Callers : ReturnPage(c)
    \/ Cleanup

SpecPool == InitPool /\ [][NextPool]_vars

\* Calls that hold a permit, and calls that hold a page.
Past == {c \in Callers : calls[c].pc \in PastSemaphore}

CheckedOut == {c \in Callers : IsSome(calls[c].page)}

\* max_concurrent_tabs: new_with_pool_size keeps it as max_pool_size.
Tabs == browser_pool.max_pool_size

\* C27: at most max_concurrent_tabs calls are past the semaphore, a call
\* holds a permit exactly while it is past the semaphore, every exit gives
\* the permit back, and when no call is running all permits are available.
PermitsBounded ==
    /\ Cardinality(Past) <= Tabs
    /\ browser_pool.semaphore + Cardinality(Past) = Tabs
    /\ \A c \in Callers : calls[c].permit <=> c \in Past
    /\ (\A c \in Callers : calls[c].pc \in {"idle", "done"}) => browser_pool.semaphore = Tabs

PermitsBoundedWitness ==
    /\ Tabs < NCalls
    /\ \A c \in Callers : calls[c].pc = "done"
    /\ \E c \in Callers : calls[c].result = "Ok"
    /\ \E c \in Callers : calls[c].result = "Err" /\ calls[c].page_end = "dropped"
    /\ browser_pool.semaphore = Tabs

\* C28: the pages of the pool and the pages checked out are never more
\* than max_pool_size together, so the pool never holds more than
\* max_pool_size pages and no page is closed because the pool is full.
PagesBounded ==
    /\ Len(browser_pool.page_pool) + Cardinality(CheckedOut) <= browser_pool.max_pool_size
    /\ Len(browser_pool.page_pool) <= browser_pool.max_pool_size
    /\ \A c \in Callers : calls[c].page_end # "closed"

PagesBoundedWitness ==
    /\ browser_pool.max_pool_size > 1
    /\ Len(browser_pool.page_pool) + Cardinality(CheckedOut) = browser_pool.max_pool_size
    /\ Len(browser_pool.page_pool) > 0
    /\ \E c \in Callers : calls[c].pc = "return"
    /\ \E c \in Callers : calls[c].page_end = "pooled"

====
